---- MODULE Spec2Model ----
(***************************************************************************)
(* State-machine model of Radar_Code.C: the ESP32 radar scanner firmware.  *)
(* One thread of control runs setup() (initialisation + the RDY handshake) *)
(* and then loop() forever.  Every statement that touches program state or *)
(* an output line is one step, so the states between two digitalWrite      *)
(* calls are visible.  The host is the only other actor: it appends bytes  *)
(* to the serial receive buffer.                                           *)
(*                                                                         *)
(* Distances are held in thousandths of a centimetre (exact fixed point),  *)
(* so duration * 0.034 / 2 is duration * 34 \div 2.  No integer echo       *)
(* duration lands exactly on 2 cm or 400 cm, so float rounding cannot      *)
(* change the outcome of the two range comparisons.                        *)
(***************************************************************************)
EXTENDS Integers, Sequences, FiniteSets, TLC

\* ---------------------------------------------------------------- bounds
MaxCycles == 185        \* scan cycles explored (two reversals and beyond)
MaxHostLines == 3       \* transmissions the host makes
MaxCalls == 4           \* driver calls explored in an arbitrary order

\* ------------------------------------------------------ program constants
MAX_VALUE == 400
MIN_VALUE == 2
SoundFactorMilli == 34  \* 0.034 cm/us, in thousandths of a centimetre
ReversalLimit_Late == 89 + 1
ReversalLimit == 89     \* if (measureCounter > 89)

LOW == "LOW"
HIGH == "HIGH"

\* characters on the serial link
CR == "CR"
LF == "LF"
RdyToken == <<"R", "D", "Y", CR>>      \* the literal "RDY\r" of line 122
RDY == <<"R", "D", "Y">>

\* what the host may transmit in one go
HostLines ==
  { <<"R", "D", "Y", LF>>,
    <<"R", "D", "Y", CR, LF>>,
    <<"R", "D", "Y", CR>>,
    <<LF>>,
    <<"f", "o", "o", LF>> }

\* echo pulse widths (us) pulseIn may return; 0 is its timeout value
Durations == {0, 117, 118, 1000, 23529, 23530, 30000}

VARIABLES
  pc,              \* position of the single thread of control
  rx,              \* serial receive buffer (bytes not yet read)
  sent,            \* number of host transmissions so far
  input,           \* String input of the handshake loop
  directionPin1,   \* level driven on GPIO 26
  directionPin2,   \* level driven on GPIO 27
  direction,       \* bool direction
  measureCounter,  \* int measureCounter
  distance,        \* float distance (global), thousandths of a cm
  duration,        \* long duration (local of calculateDistanceCM)
  lcd,             \* what the display shows
  out,             \* lines printed to the host in the current iteration
  cycle,           \* number of loop() iterations started
  cdrLog,          \* iterations in which CDR was printed
  flipLog,         \* iterations in which direction was flipped
  ops              \* operations completed in the current iteration, in order

vars == <<pc, rx, sent, input, directionPin1, directionPin2, direction,
          measureCounter, distance, duration, lcd, out, cycle, cdrLog, flipLog,
          ops>>

Msg(t, v) == [tag |-> t, val |-> v]

HandshakePcs == {"setup_init", "hs_poll", "hs_read", "hs_cmp", "hs_delay"}
MeasuringPcs == {"loop_trigger", "loop_echo", "loop_calc"}

\* ------------------------------------------------------- pure functions

\* startStop(isTrue): the level written to directionPin1 / directionPin2
StartStopPin1_IgnoresDirection(isTrue, dir) == IF isTrue THEN LOW ELSE HIGH
StartStopPin1_NoStop(isTrue, dir) == IF ~dir THEN LOW ELSE HIGH
StartStopPin1(isTrue, dir) ==
  IF isTrue THEN LOW ELSE IF ~dir THEN LOW ELSE HIGH

StartStopPin2_KeepsRunning(isTrue, dir) == IF ~dir THEN HIGH ELSE LOW
StartStopPin2_BothHigh(isTrue, dir) == IF isTrue THEN LOW ELSE HIGH
StartStopPin2(isTrue, dir) ==
  IF isTrue THEN LOW ELSE IF ~dir THEN HIGH ELSE LOW

\* changeDirection(): the level written to directionPin1 / directionPin2
\* when the flag currently holds dir
ChangeDirectionPin1_Swapped(dir) == IF dir THEN HIGH ELSE LOW
ChangeDirectionPin1(dir) == IF dir THEN LOW ELSE HIGH

ChangeDirectionPin2_NoWrite(dir) == LOW
ChangeDirectionPin2(dir) == IF dir THEN HIGH ELSE LOW

\* duration * 0.034 / 2, in thousandths of a centimetre
RawDistance_NotHalved(d) == d * SoundFactorMilli
RawDistance(d) == (d * SoundFactorMilli) \div 2

InRange_NoUpper(x) == x >= MIN_VALUE * 1000
InRange(x) == x >= MIN_VALUE * 1000 /\ x <= MAX_VALUE * 1000

calculateDistanceCM(d) == IF InRange(RawDistance(d)) THEN RawDistance(d) ELSE 0

\* input == "RDY\r"
IsReady_AnyLine(line) == line # <<>>
IsReady(line) == line = RdyToken

\* a line with its trailing carriage returns / newlines removed
RECURSIVE TrimCRLF(_)
TrimCRLF(line) ==
  IF line # <<>> /\ line[Len(line)] \in {CR, LF}
  THEN TrimCRLF(SubSeq(line, 1, Len(line) - 1))
  ELSE line

\* ------------------------------------------------------------ initial state
Init ==
  /\ pc = "setup_init"
  /\ rx = <<>>
  /\ sent = 0
  /\ input = <<>>
  /\ directionPin1 = LOW
  /\ directionPin2 = LOW
  /\ direction = TRUE
  /\ measureCounter = 0
  /\ distance = 0
  /\ duration = 0
  /\ lcd = [text |-> "", val |-> 0]
  /\ out = <<>>
  /\ cycle = 0
  /\ cdrLog = <<>>
  /\ flipLog = <<>>
  /\ ops = <<>>

\* ------------------------------------------------------------------- host
\* the host writes bytes to the serial port at any time
HostSend ==
  /\ sent < MaxHostLines
  /\ \E l \in HostLines : rx' = rx \o l
  /\ sent' = sent + 1
  /\ UNCHANGED <<ops, pc, input, directionPin1, directionPin2, direction,
                 measureCounter, distance, duration, lcd, out, cycle,
                 cdrLog, flipLog>>

\* ------------------------------------------------------------------ setup
\* lines 91-115: peripherals, pin modes, enable PWM, boot message
SetupInit_StartsMotor ==
  /\ pc = "setup_init"
  /\ pc' = "hs_poll"
  /\ directionPin1' = HIGH
  /\ lcd' = [text |-> "Python beklenior", val |-> 0]
  /\ UNCHANGED <<ops, rx, sent, input, directionPin2, direction,
                 measureCounter, distance, duration, out, cycle, cdrLog, flipLog>>
SetupInit ==
  /\ pc = "setup_init"
  /\ pc' = "hs_poll"
  /\ lcd' = [text |-> "Python beklenior", val |-> 0]
  /\ UNCHANGED <<ops, rx, sent, input, directionPin1, directionPin2, direction,
                 measureCounter, distance, duration, out, cycle, cdrLog, flipLog>>

\* lines 119-120: print the waiting line, test Serial.available()
HandshakePoll ==
  /\ pc = "hs_poll"
  /\ out' = <<Msg("WAIT", 0)>>
  /\ IF rx = <<>>
     THEN pc' = "hs_delay" /\ UNCHANGED input
     ELSE pc' = "hs_read" /\ input' = <<>>
  /\ UNCHANGED <<ops, rx, sent, directionPin1, directionPin2, direction,
                 measureCounter, distance, duration, lcd, cycle, cdrLog, flipLog>>

\* line 121, Serial.readStringUntil('\n'): one byte at a time; the
\* terminator is consumed and not stored
ReadChar ==
  /\ pc = "hs_read"
  /\ rx # <<>>
  /\ rx' = Tail(rx)
  /\ IF Head(rx) = LF
     THEN pc' = "hs_cmp" /\ UNCHANGED input
     ELSE pc' = "hs_read" /\ input' = Append(input, Head(rx))
  /\ UNCHANGED <<ops, sent, directionPin1, directionPin2, direction,
                 measureCounter, distance, duration, lcd, out, cycle,
                 cdrLog, flipLog>>

\* line 121: no byte arrives within the stream timeout; the read returns
\* what it has
ReadTimeout ==
  /\ pc = "hs_read"
  /\ rx = <<>>
  /\ pc' = "hs_cmp"
  /\ UNCHANGED <<ops, rx, sent, input, directionPin1, directionPin2, direction,
                 measureCounter, distance, duration, lcd, out, cycle,
                 cdrLog, flipLog>>

\* lines 122-127 with startStop(false) and break outside the if
HandshakeCompare_ResumeAlways ==
  /\ pc = "hs_cmp"
  /\ IF IsReady(input)
     THEN /\ pc' = "setup_resume_p1"
          /\ out' = Append(out, Msg("READY", 0))
          /\ UNCHANGED ops
     ELSE /\ pc' = "setup_resume_p1"
          /\ ops' = Append(ops, "reject")
          /\ UNCHANGED out
  /\ UNCHANGED <<rx, sent, input, directionPin1, directionPin2, direction,
                 measureCounter, distance, duration, lcd, cycle, cdrLog, flipLog>>

\* lines 122-127 with the receive buffer discarded on a mismatch
HandshakeCompare_FlushesInput ==
  /\ pc = "hs_cmp"
  /\ IF IsReady(input)
     THEN /\ pc' = "setup_resume_p1"
          /\ out' = Append(out, Msg("READY", 0))
          /\ UNCHANGED <<ops, rx>>
     ELSE /\ pc' = "hs_delay"
          /\ ops' = Append(ops, "reject")
          /\ UNCHANGED out
          /\ rx' = <<>>
  /\ UNCHANGED <<sent, input, directionPin1, directionPin2, direction,
                 measureCounter, distance, duration, lcd, cycle, cdrLog, flipLog>>

\* lines 122-127
HandshakeCompare ==
  /\ pc = "hs_cmp"
  /\ IF IsReady(input)
     THEN /\ pc' = "setup_resume_p1"
          /\ out' = Append(out, Msg("READY", 0))
          /\ UNCHANGED ops
     ELSE /\ pc' = "hs_delay"
          /\ ops' = Append(ops, "reject")
          /\ UNCHANGED out
  /\ UNCHANGED <<rx, sent, input, directionPin1, directionPin2, direction,
                 measureCounter, distance, duration, lcd, cycle, cdrLog, flipLog>>

\* line 129
HandshakeDelay ==
  /\ pc = "hs_delay"
  /\ pc' = "hs_poll"
  /\ UNCHANGED <<ops, rx, sent, input, directionPin1, directionPin2, direction,
                 measureCounter, distance, duration, lcd, out, cycle,
                 cdrLog, flipLog>>

\* line 125, startStop(false): first and second digitalWrite
SetupResume1 ==
  /\ pc = "setup_resume_p1"
  /\ directionPin1' = StartStopPin1(FALSE, direction)
  /\ pc' = "setup_resume_p2"
  /\ UNCHANGED <<ops, rx, sent, input, directionPin2, direction,
                 measureCounter, distance, duration, lcd, out, cycle,
                 cdrLog, flipLog>>

SetupResume2 ==
  /\ pc = "setup_resume_p2"
  /\ directionPin2' = StartStopPin2(FALSE, direction)
  /\ pc' = "setup_clear"
  /\ ops' = Append(ops, "resume")
  /\ UNCHANGED <<rx, sent, input, directionPin1, direction,
                 measureCounter, distance, duration, lcd, out, cycle,
                 cdrLog, flipLog>>

\* lines 126, 133: break, lcd.clear(), return from setup()
SetupClear ==
  /\ pc = "setup_clear"
  /\ lcd' = [text |-> "", val |-> 0]
  /\ pc' = "loop_delay"
  /\ UNCHANGED <<ops, rx, sent, input, directionPin1, directionPin2, direction,
                 measureCounter, distance, duration, out, cycle,
                 cdrLog, flipLog>>

\* ------------------------------------------------------------------- loop
\* line 138: delay(70), a new iteration of loop() begins
LoopDelay ==
  /\ pc = "loop_delay"
  /\ cycle < MaxCycles
  /\ cycle' = cycle + 1
  /\ out' = <<>>
  /\ pc' = "loop_stop_p1"
  /\ ops' = <<>>
  /\ UNCHANGED <<rx, sent, input, directionPin1, directionPin2, direction,
                 measureCounter, distance, duration, lcd, cdrLog, flipLog>>

\* line 141, startStop(true): first digitalWrite (line 47)
LoopStop1 ==
  /\ pc = "loop_stop_p1"
  /\ directionPin1' = StartStopPin1(TRUE, direction)
  /\ pc' = "loop_stop_p2"
  /\ UNCHANGED <<ops, rx, sent, input, directionPin2, direction, measureCounter,
                 distance, duration, lcd, out, cycle, cdrLog, flipLog>>

\* line 141, startStop(true): second digitalWrite (line 48)
LoopStop2 ==
  /\ pc = "loop_stop_p2"
  /\ directionPin2' = StartStopPin2(TRUE, direction)
  /\ pc' = "loop_fwr"
  /\ ops' = Append(ops, "stop")
  /\ UNCHANGED <<rx, sent, input, directionPin1, direction, measureCounter,
                 distance, duration, lcd, out, cycle, cdrLog, flipLog>>

\* line 144 without the print
LoopAnnounce_Silent ==
  /\ pc = "loop_fwr"
  /\ pc' = "loop_trigger"
  /\ UNCHANGED <<ops, rx, sent, input, directionPin1, directionPin2, direction,
                 measureCounter, distance, duration, lcd, out, cycle, cdrLog,
                 flipLog>>

\* line 144: Serial.printf("FWR\n\r")
LoopAnnounce ==
  /\ pc = "loop_fwr"
  /\ out' = Append(out, Msg("FWR", 0))
  /\ pc' = "loop_trigger"
  /\ ops' = Append(ops, "FWR")
  /\ UNCHANGED <<rx, sent, input, directionPin1, directionPin2, direction,
                 measureCounter, distance, duration, lcd, cycle, cdrLog,
                 flipLog>>

\* lines 79, 64-70: the 10 us trigger pulse
triggerSensor ==
  /\ pc = "loop_trigger"
  /\ pc' = "loop_echo"
  /\ UNCHANGED <<ops, rx, sent, input, directionPin1, directionPin2, direction,
                 measureCounter, distance, duration, lcd, out, cycle, cdrLog,
                 flipLog>>

\* lines 80, 73-75: pulseIn returns the echo width, 0 on timeout
measureEchoDuration ==
  /\ pc = "loop_echo"
  /\ \E d \in Durations : duration' = d
  /\ pc' = "loop_calc"
  /\ UNCHANGED <<ops, rx, sent, input, directionPin1, directionPin2, direction,
                 measureCounter, distance, lcd, out, cycle, cdrLog, flipLog>>

\* lines 81-86 and 147: convert, validate, assign the global
LoopMeasure ==
  /\ pc = "loop_calc"
  /\ distance' = calculateDistanceCM(duration)
  /\ pc' = "loop_lcd"
  /\ ops' = Append(ops, "measure")
  /\ UNCHANGED <<rx, sent, input, directionPin1, directionPin2, direction,
                 measureCounter, duration, lcd, out, cycle, cdrLog, flipLog>>

\* lines 148-152 left out
LoopDisplay_Skipped ==
  /\ pc = "loop_lcd"
  /\ pc' = "loop_report"
  /\ UNCHANGED <<lcd, ops, rx, sent, input, directionPin1, directionPin2, direction,
                 measureCounter, distance, duration, out, cycle, cdrLog,
                 flipLog>>

\* lines 148-152: label and value on the display, delay(60)
LoopDisplay ==
  /\ pc = "loop_lcd"
  /\ lcd' = [text |-> "Distance:", val |-> distance]
  /\ pc' = "loop_report"
  /\ ops' = Append(ops, "display")
  /\ UNCHANGED <<rx, sent, input, directionPin1, directionPin2, direction,
                 measureCounter, distance, duration, out, cycle, cdrLog,
                 flipLog>>

\* line 153: Serial.printf("Distance: %f\n\r", distance)
LoopReport ==
  /\ pc = "loop_report"
  /\ out' = Append(out, Msg("Distance", distance))
  /\ pc' = "loop_check"
  /\ ops' = Append(ops, "report")
  /\ UNCHANGED <<rx, sent, input, directionPin1, directionPin2, direction,
                 measureCounter, distance, duration, lcd, cycle, cdrLog,
                 flipLog>>

\* lines 156-157 with the comparison >= 89
LoopCheck_OffByOne ==
  /\ pc = "loop_check"
  /\ IF measureCounter >= ReversalLimit
     THEN /\ measureCounter' = 0
          /\ ops' = Append(ops, "reset")
          /\ pc' = "loop_cdr"
     ELSE /\ UNCHANGED <<measureCounter, ops>>
          /\ pc' = "loop_resume_p1"
  /\ UNCHANGED <<rx, sent, input, directionPin1, directionPin2, direction,
                 distance, duration, lcd, out, cycle, cdrLog, flipLog>>

\* lines 156-157: the reversal test and the counter reset
LoopCheck ==
  /\ pc = "loop_check"
  /\ IF measureCounter > ReversalLimit
     THEN /\ measureCounter' = 0
          /\ ops' = Append(ops, "reset")
          /\ pc' = "loop_cdr"
     ELSE /\ UNCHANGED <<measureCounter, ops>>
          /\ pc' = "loop_resume_p1"
  /\ UNCHANGED <<rx, sent, input, directionPin1, directionPin2, direction,
                 distance, duration, lcd, out, cycle, cdrLog, flipLog>>

\* line 158: Serial.printf("CDR\n\r")
LoopCdr ==
  /\ pc = "loop_cdr"
  /\ out' = Append(out, Msg("CDR", 0))
  /\ cdrLog' = Append(cdrLog, cycle)
  /\ pc' = "cd_p1"
  /\ ops' = Append(ops, "CDR")
  /\ UNCHANGED <<rx, sent, input, directionPin1, directionPin2, direction,
                 measureCounter, distance, duration, lcd, cycle, flipLog>>

\* line 159, changeDirection(): first digitalWrite (line 31 or 36)
changeDirection1 ==
  /\ pc = "cd_p1"
  /\ directionPin1' = ChangeDirectionPin1(direction)
  /\ pc' = "cd_p2"
  /\ UNCHANGED <<ops, rx, sent, input, directionPin2, direction, measureCounter,
                 distance, duration, lcd, out, cycle, cdrLog, flipLog>>

\* changeDirection(): second digitalWrite (line 32 or 37)
changeDirection2 ==
  /\ pc = "cd_p2"
  /\ directionPin2' = ChangeDirectionPin2(direction)
  /\ pc' = "cd_flag"
  /\ UNCHANGED <<ops, rx, sent, input, directionPin1, direction, measureCounter,
                 distance, duration, lcd, out, cycle, cdrLog, flipLog>>

\* changeDirection(): the flag assignment (line 33 or 38)
changeDirection3 ==
  /\ pc = "cd_flag"
  /\ direction' = ~direction
  /\ flipLog' = Append(flipLog, cycle)
  /\ pc' = "loop_resume_p1"
  /\ ops' = Append(ops, "reverse")
  /\ UNCHANGED <<rx, sent, input, directionPin1, directionPin2,
                 measureCounter, distance, duration, lcd, out, cycle, cdrLog>>

\* line 163, startStop(false): first digitalWrite (line 53 or 57)
LoopResume1 ==
  /\ pc = "loop_resume_p1"
  /\ directionPin1' = StartStopPin1(FALSE, direction)
  /\ pc' = "loop_resume_p2"
  /\ UNCHANGED <<ops, rx, sent, input, directionPin2, direction, measureCounter,
                 distance, duration, lcd, out, cycle, cdrLog, flipLog>>

\* line 163, startStop(false): second digitalWrite (line 54 or 58)
LoopResume2 ==
  /\ pc = "loop_resume_p2"
  /\ directionPin2' = StartStopPin2(FALSE, direction)
  /\ pc' = "loop_incr"
  /\ ops' = Append(ops, "resume")
  /\ UNCHANGED <<rx, sent, input, directionPin1, direction, measureCounter,
                 distance, duration, lcd, out, cycle, cdrLog, flipLog>>

\* line 166 executed only after a valid reading
LoopIncrement_SkipsInvalid ==
  /\ pc = "loop_incr"
  /\ measureCounter' = IF distance = 0 THEN measureCounter
                       ELSE measureCounter + 1
  /\ pc' = "loop_delay"
  /\ ops' = Append(ops, "increment")
  /\ UNCHANGED <<rx, sent, input, directionPin1, directionPin2, direction,
                 distance, duration, lcd, out, cycle, cdrLog, flipLog>>

\* line 166 with the counter clamped below the size of measuredDistances
LoopIncrement_Saturates ==
  /\ pc = "loop_incr"
  /\ measureCounter' = IF measureCounter < 89 THEN measureCounter + 1
                       ELSE measureCounter
  /\ pc' = "loop_delay"
  /\ ops' = Append(ops, "increment")
  /\ UNCHANGED <<rx, sent, input, directionPin1, directionPin2, direction,
                 distance, duration, lcd, out, cycle, cdrLog, flipLog>>

\* line 166: measureCounter++
LoopIncrement ==
  /\ pc = "loop_incr"
  /\ measureCounter' = measureCounter + 1
  /\ pc' = "loop_delay"
  /\ ops' = Append(ops, "increment")
  /\ UNCHANGED <<rx, sent, input, directionPin1, directionPin2, direction,
                 distance, duration, lcd, out, cycle, cdrLog, flipLog>>

\* ----------------------------------------------------------- specification
Next ==
  \/ HostSend
  \/ SetupInit
  \/ HandshakePoll
  \/ ReadChar
  \/ ReadTimeout
  \/ HandshakeCompare
  \/ HandshakeDelay
  \/ SetupResume1
  \/ SetupResume2
  \/ SetupClear
  \/ LoopDelay
  \/ LoopStop1
  \/ LoopStop2
  \/ LoopAnnounce
  \/ triggerSensor
  \/ measureEchoDuration
  \/ LoopMeasure
  \/ LoopDisplay
  \/ LoopReport
  \/ LoopCheck
  \/ LoopCdr
  \/ changeDirection1
  \/ changeDirection2
  \/ changeDirection3
  \/ LoopResume1
  \/ LoopResume2
  \/ LoopIncrement

Spec == Init /\ [][Next]_vars

\* ------------------------------------------------- the driver on its own
\* startStop and changeDirection called in an arbitrary order, from the
\* state the globals are constructed in.  Every completed call is logged in
\* out with the outputs, the flag and the counter it leaves behind.
CounterSamples == {0, 90}

DriveInit ==
  /\ pc = "drv_idle"
  /\ rx = <<>>
  /\ sent = 0
  /\ input = <<>>
  /\ directionPin1 = LOW
  /\ directionPin2 = LOW
  /\ direction = TRUE
  /\ measureCounter \in CounterSamples
  /\ distance = 0
  /\ duration = 0
  /\ lcd = [text |-> "", val |-> 0]
  /\ out = <<>>
  /\ cycle = 0
  /\ cdrLog = <<>>
  /\ flipLog = <<>>
  /\ ops = <<>>

Snapshot(p1, p2, dir, cnt) == [pin1 |-> p1, pin2 |-> p2, dir |-> dir, cnt |-> cnt]

\* startStop(true): first digitalWrite (line 47)
DriveStop1 ==
  /\ pc = "drv_idle"
  /\ Len(ops) < MaxCalls
  /\ directionPin1' = StartStopPin1(TRUE, direction)
  /\ pc' = "drv_stop_p2"
  /\ UNCHANGED <<rx, sent, input, directionPin2, direction, measureCounter,
                 distance, duration, lcd, out, cycle, cdrLog, flipLog, ops>>

\* startStop(true): second digitalWrite (line 48), return
DriveStop2 ==
  /\ pc = "drv_stop_p2"
  /\ directionPin2' = StartStopPin2(TRUE, direction)
  /\ ops' = Append(ops, "stop")
  /\ out' = Append(out, Msg("stop",
               Snapshot(directionPin1, directionPin2', direction, measureCounter)))
  /\ pc' = "drv_idle"
  /\ UNCHANGED <<rx, sent, input, directionPin1, direction, measureCounter,
                 distance, duration, lcd, cycle, cdrLog, flipLog>>

\* startStop(false): first digitalWrite (line 53 or 57)
DriveResume1 ==
  /\ pc = "drv_idle"
  /\ Len(ops) < MaxCalls
  /\ directionPin1' = StartStopPin1(FALSE, direction)
  /\ pc' = "drv_resume_p2"
  /\ UNCHANGED <<rx, sent, input, directionPin2, direction, measureCounter,
                 distance, duration, lcd, out, cycle, cdrLog, flipLog, ops>>

\* startStop(false): second digitalWrite (line 54 or 58), return
DriveResume2 ==
  /\ pc = "drv_resume_p2"
  /\ directionPin2' = StartStopPin2(FALSE, direction)
  /\ ops' = Append(ops, "resume")
  /\ out' = Append(out, Msg("resume",
               Snapshot(directionPin1, directionPin2', direction, measureCounter)))
  /\ pc' = "drv_idle"
  /\ UNCHANGED <<rx, sent, input, directionPin1, direction, measureCounter,
                 distance, duration, lcd, cycle, cdrLog, flipLog>>

\* changeDirection(): first digitalWrite (line 31 or 36)
DriveReverse1 ==
  /\ pc = "drv_idle"
  /\ Len(ops) < MaxCalls
  /\ directionPin1' = ChangeDirectionPin1(direction)
  /\ pc' = "drv_cd_p2"
  /\ UNCHANGED <<rx, sent, input, directionPin2, direction, measureCounter,
                 distance, duration, lcd, out, cycle, cdrLog, flipLog, ops>>

\* changeDirection(): second digitalWrite (line 32 or 37)
DriveReverse2 ==
  /\ pc = "drv_cd_p2"
  /\ directionPin2' = ChangeDirectionPin2(direction)
  /\ pc' = "drv_cd_flag"
  /\ UNCHANGED <<rx, sent, input, directionPin1, direction, measureCounter,
                 distance, duration, lcd, out, cycle, cdrLog, flipLog, ops>>

\* changeDirection(): the flag assignment (line 33 or 38), return
DriveReverse3 ==
  /\ pc = "drv_cd_flag"
  /\ direction' = ~direction
  /\ ops' = Append(ops, "reverse")
  /\ out' = Append(out, Msg("reverse",
               Snapshot(directionPin1, directionPin2, direction', measureCounter)))
  /\ pc' = "drv_idle"
  /\ UNCHANGED <<rx, sent, input, directionPin1, directionPin2,
                 measureCounter, distance, duration, lcd, cycle, cdrLog,
                 flipLog>>

DriveNext ==
  \/ DriveStop1
  \/ DriveStop2
  \/ DriveResume1
  \/ DriveResume2
  \/ DriveReverse1
  \/ DriveReverse2
  \/ DriveReverse3

DriveSpec == DriveInit /\ [][DriveNext]_vars

\* ------------------------------------------------- scanning without end
\* The scan loop from the state setup() leaves behind, with the iteration
\* history (cycle, cdrLog, flipLog) not recorded so that the state space is
\* finite.  The host is left out: loop() never reads the serial port.
LiveInit ==
  /\ pc = "loop_delay"
  /\ rx = <<>>
  /\ sent = 1
  /\ input = RdyToken
  /\ directionPin1 = HIGH
  /\ directionPin2 = LOW
  /\ direction = TRUE
  /\ measureCounter = 0
  /\ distance = 0
  /\ duration = 0
  /\ lcd = [text |-> "", val |-> 0]
  /\ out = <<Msg("WAIT", 0), Msg("READY", 0)>>
  /\ cycle = 0
  /\ cdrLog = <<>>
  /\ flipLog = <<>>
  /\ ops = <<"resume">>

\* line 138: delay(70), a new iteration of loop() begins
LiveLoopDelay ==
  /\ pc = "loop_delay"
  /\ out' = <<>>
  /\ pc' = "loop_stop_p1"
  /\ ops' = <<>>
  /\ UNCHANGED <<cycle, rx, sent, input, directionPin1, directionPin2, direction,
                 measureCounter, distance, duration, lcd, cdrLog, flipLog>>

\* line 158: Serial.printf("CDR\n\r")
LiveLoopCdr ==
  /\ pc = "loop_cdr"
  /\ out' = Append(out, Msg("CDR", 0))
  /\ pc' = "cd_p1"
  /\ ops' = Append(ops, "CDR")
  /\ UNCHANGED <<cdrLog, rx, sent, input, directionPin1, directionPin2, direction,
                 measureCounter, distance, duration, lcd, cycle, flipLog>>

\* changeDirection(): the flag assignment (line 33 or 38)
LivechangeDirection3 ==
  /\ pc = "cd_flag"
  /\ direction' = ~direction
  /\ pc' = "loop_resume_p1"
  /\ ops' = Append(ops, "reverse")
  /\ UNCHANGED <<flipLog, rx, sent, input, directionPin1, directionPin2,
                 measureCounter, distance, duration, lcd, out, cycle, cdrLog>>

LiveNext ==
  \/ LiveLoopDelay
  \/ LoopStop1
  \/ LoopStop2
  \/ LoopAnnounce
  \/ triggerSensor
  \/ measureEchoDuration
  \/ LoopMeasure
  \/ LoopDisplay
  \/ LoopReport
  \/ LoopCheck
  \/ LiveLoopCdr
  \/ changeDirection1
  \/ changeDirection2
  \/ LivechangeDirection3
  \/ LoopResume1
  \/ LoopResume2
  \/ LoopIncrement

\* one thread of control that always takes its next step; the echo wait
\* returns
LiveSpec == LiveInit /\ [][LiveNext]_vars /\ WF_vars(LiveNext)

\* ------------------------------------------------------ derived notions
GateReleased == pc \notin HandshakePcs
MotorStopped == directionPin1 = LOW /\ directionPin2 = LOW
ForwardPattern == directionPin1 = HIGH /\ directionPin2 = LOW
ReversePattern == directionPin1 = LOW /\ directionPin2 = HIGH
LastReversal == IF flipLog = <<>> THEN 0 ELSE flipLog[Len(flipLog)]
\* the iteration in progress (or just ended) is one that reversed
ReversedThisCycle == flipLog # <<>> /\ LastReversal = cycle
CycleEnded == pc = "loop_delay" /\ cycle > 0
Tags(t) == {i \in 1..Len(out) : out[i].tag = t}

\* ---------------------------------------------------------------- claims

\* C1 (as stated): a line read by the handshake releases the gate if and
\* only if the line with its trailing CR/LF removed is exactly RDY.
ClaimC1_Original ==
  [][(pc = "hs_cmp" /\ pc' # pc)
       => ((pc' = "setup_resume_p1") <=> (TrimCRLF(input) = RDY))]_vars

\* C2: until the handshake has accepted the ready token both direction
\* outputs are LOW (the motor is Stopped).
TheoremC2 == ~GateReleased => MotorStopped

WitnessC2 ==
  /\ pc = "hs_delay"
  /\ input = <<"f", "o", "o">>
  /\ MotorStopped

\* C3 (as stated): counting iterations from start or from the latest
\* reversal, a reversal is triggered in the 91st iteration and in no other,
\* and the reversing iteration leaves measureCounter at 0.
ClaimC3_Original ==
  /\ pc = "loop_cdr" => cycle - LastReversal = 91
  /\ (pc = "loop_check" /\ cycle - LastReversal = 91)
       => measureCounter > ReversalLimit
  /\ (CycleEnded /\ ReversedThisCycle) => measureCounter = 0

\* C3 (amended): the first reversal is triggered in iteration 91 from start,
\* every later one in the 90th iteration after the previous reversal, never
\* twice in one iteration; the reversing iteration resets measureCounter to
\* 0 and its closing increment leaves it at 1.
ReversalDue ==
  IF flipLog = <<>> THEN cycle = 91 ELSE cycle - LastReversal = 90

TheoremC3 ==
  /\ pc = "loop_cdr" => ReversalDue
  /\ (pc = "loop_check" /\ ReversalDue) => measureCounter > ReversalLimit
  /\ \A i, j \in 1..Len(flipLog) : i < j => flipLog[i] < flipLog[j]
  /\ (pc \in {"loop_cdr", "cd_p1", "cd_p2", "cd_flag"}) => measureCounter = 0
  /\ (CycleEnded /\ ReversedThisCycle) => measureCounter = 1

WitnessC3 ==
  /\ CycleEnded
  /\ Len(flipLog) = 2
  /\ flipLog = <<91, 181>>
  /\ cycle = 181
  /\ measureCounter = 1

\* C4 (as stated): every window of 90 consecutive iterations contains
\* exactly one CDR, every CDR comes with one flip of direction and no flip
\* comes without a CDR.
ClaimC4_Original ==
  /\ (CycleEnded /\ cycle >= 90)
       => Cardinality({i \in 1..Len(cdrLog) : cdrLog[i] > cycle - 90}) = 1
  /\ CycleEnded => cdrLog = flipLog
  /\ Len(flipLog) <= Len(cdrLog)

\* C5: an iteration prints exactly one FWR and then exactly one Distance
\* line; FWR is out before the measurement is taken, and the Distance line
\* carries the value measured in that iteration.
TheoremC5 ==
  /\ pc \in MeasuringPcs => out = <<Msg("FWR", 0)>>
  /\ CycleEnded =>
       /\ Len(out) >= 2
       /\ out[1] = Msg("FWR", 0)
       /\ out[2] = Msg("Distance", calculateDistanceCM(duration))
       /\ Cardinality(Tags("FWR")) = 1
       /\ Cardinality(Tags("Distance")) = 1
  /\ \A i \in Tags("Distance") : \E j \in Tags("FWR") : j < i

WitnessC5 ==
  /\ CycleEnded
  /\ duration = 1000
  /\ out = <<Msg("FWR", 0), Msg("Distance", 17000)>>

\* C6: while calculateDistanceCM runs (trigger pulse, echo wait, conversion)
\* both direction outputs are LOW.
TheoremC6 == pc \in MeasuringPcs => MotorStopped

WitnessC6 ==
  /\ pc = "loop_echo"
  /\ flipLog # <<>>
  /\ cycle = LastReversal + 1
  /\ MotorStopped

\* C7: the two direction outputs are never both HIGH, the states between
\* two single pin writes included.
TheoremC7 == ~(directionPin1 = HIGH /\ directionPin2 = HIGH)

WitnessC7 ==
  /\ pc = "cd_p2"
  /\ ~direction
  /\ directionPin1 = HIGH
  /\ directionPin2 = LOW

\* C8 (as stated): changeDirection writes no motor output; a motor that is
\* Stopped when it is called is still Stopped during and after the call.
ClaimC8_Original ==
  (pc \in {"cd_p2", "cd_flag"} \/ (pc = "loop_resume_p1" /\ ReversedThisCycle))
    => MotorStopped

\* C8 (amended): changeDirection flips the direction flag and also drives
\* the two outputs with the new direction's pattern, so the motor is Running
\* in the new direction when it returns; the resume that follows leaves that
\* pattern in place.
TheoremC8 ==
  /\ pc = "cd_p1" => MotorStopped
  /\ (pc \in {"loop_resume_p1", "loop_resume_p2", "loop_incr"}
        /\ ReversedThisCycle)
       => /\ direction = (Len(flipLog) % 2 = 0)
          /\ IF direction THEN ForwardPattern ELSE ReversePattern

WitnessC8 ==
  /\ pc = "loop_resume_p1"
  /\ ReversedThisCycle
  /\ ~direction
  /\ ReversePattern

\* C9: the reported distance is 0 or lies in [2, 400] cm.
TheoremC9 ==
  \/ distance = 0
  \/ (distance >= MIN_VALUE * 1000 /\ distance <= MAX_VALUE * 1000)

WitnessC9 ==
  /\ pc = "loop_lcd"
  /\ duration = 23530
  /\ distance = 0

\* C10: the value returned for an echo of t microseconds is t * 0.017 cm
\* when that lies in [2, 400] and 0 otherwise; 1000 us gives 17.0 cm and
\* 30000 us gives 0.
TheoremC10 ==
  pc # "loop_calc" =>
    /\ distance = IF 17 * duration >= 2000 /\ 17 * duration <= 400000
                  THEN 17 * duration ELSE 0
    /\ duration = 1000 => distance = 17000
    /\ duration = 30000 => distance = 0

WitnessC10 ==
  /\ pc = "loop_lcd"
  /\ duration = 23529
  /\ distance = 399993

\* number of times op was completed in the current iteration (for setup:
\* since power-on)
OpCount(op) == Cardinality({i \in 1..Len(ops) : ops[i] = op})
SetupDone == pc = "setup_clear" \/ (pc = "loop_delay" /\ cycle = 0)

IsPrefix(a, b) == Len(a) <= Len(b) /\ SubSeq(b, 1, Len(a)) = a

\* C12: the handshake is left only on a line equal to the ready token (no
\* timeout, no scan iteration before that), and once it is left the program
\* never waits for the host again and never takes a byte from the receive
\* buffer.
TheoremC12 ==
  [][ /\ (~GateReleased /\ GateReleased') => input = RdyToken
      /\ ~GateReleased => (cycle' = 0 /\ OpCount("measure") = 0)
      /\ GateReleased => (GateReleased' /\ input' = input /\ IsPrefix(rx, rx'))
    ]_vars

WitnessC12 ==
  /\ pc = "loop_echo"
  /\ cycle >= 2
  /\ rx = <<"f", "o", "o", LF>>
  /\ input = RdyToken

\* C16: measureCounter stays within 0..90.
TheoremC16 == measureCounter >= 0 /\ measureCounter <= 90

WitnessC16 ==
  /\ pc = "loop_check"
  /\ measureCounter = 90
  /\ Len(flipLog) = 1

\* C18: a line that does not equal the ready token changes nothing in motor
\* outputs, direction, counter or pending input and sends the program back
\* to polling; a later line that equals the token is accepted whatever was
\* rejected before it.
TheoremC18 ==
  [][ /\ (pc = "hs_cmp" /\ pc' # pc) =>
           IF input = RdyToken
           THEN pc' = "setup_resume_p1"
           ELSE /\ pc' = "hs_delay"
                /\ UNCHANGED <<directionPin1, directionPin2, direction,
                               measureCounter, distance, rx>>
      /\ (pc = "hs_delay" /\ pc' # pc) => pc' = "hs_poll"
    ]_vars

WitnessC18 ==
  /\ pc = "setup_resume_p1"
  /\ ops = <<"reject", "reject">>
  /\ input = RdyToken
  /\ MotorStopped
  /\ direction
  /\ measureCounter = 0

PlainCycle ==
  <<"stop", "FWR", "measure", "display", "report", "resume", "increment">>
ReversingCycle ==
  <<"stop", "FWR", "measure", "display", "report", "reset", "CDR", "reverse",
    "resume", "increment">>

\* C15 (as stated): an iteration runs stop, FWR, measure, display, report,
\* resume, increment and only then the conditional reset / CDR / reverse.
ClaimC15_Original ==
  CycleEnded =>
    ops \in {PlainCycle, PlainCycle \o <<"reset", "CDR", "reverse">>}

\* C15 (amended): an iteration runs stop, FWR, measure, display, report,
\* then the conditional reset / CDR / reverse, then resume, then the counter
\* increment: the reversal decision is taken before the resume and before
\* the increment of the same iteration.
TheoremC15 ==
  /\ (GateReleased /\ cycle > 0)
       => (IsPrefix(ops, PlainCycle) \/ IsPrefix(ops, ReversingCycle))
  /\ CycleEnded
       => ops = IF ReversedThisCycle THEN ReversingCycle ELSE PlainCycle

WitnessC15 ==
  /\ CycleEnded
  /\ ReversedThisCycle
  /\ ops = ReversingCycle

\* the value of measureCounter at the end of iteration c
ScheduledCounter(c) == IF c <= 90 THEN c ELSE ((c - 91) % 90) + 1

\* C17: an iteration whose reading is 0 still measures once, prints FWR and
\* "Distance: 0", resumes the motor and increments the counter once; the
\* counter at the end of an iteration depends on the iteration number only.
TheoremC17 ==
  /\ CycleEnded => measureCounter = ScheduledCounter(cycle)
  /\ (CycleEnded /\ distance = 0) =>
       /\ OpCount("measure") = 1
       /\ OpCount("resume") = 1
       /\ OpCount("increment") = 1
       /\ Len(out) >= 2
       /\ out[1] = Msg("FWR", 0)
       /\ out[2] = Msg("Distance", 0)
       /\ ~MotorStopped

WitnessC17 ==
  /\ CycleEnded
  /\ cycle = 91
  /\ duration = 0
  /\ distance = 0
  /\ measureCounter = 1

\* positions between the single writes of one startStop / changeDirection
MidCallPcs ==
  {"setup_resume_p2", "loop_stop_p2", "cd_p2", "cd_flag", "loop_resume_p2"}

\* C20: at every boundary of an operation at which the motor is Running,
\* the output pattern is the one of the direction flag.
TheoremC20 ==
  (pc \notin MidCallPcs /\ ~MotorStopped)
    => IF direction THEN ForwardPattern ELSE ReversePattern

WitnessC20 ==
  /\ pc = "loop_resume_p1"
  /\ ReversedThisCycle
  /\ direction
  /\ ForwardPattern

CallTags == [i \in 1..Len(out) |-> out[i].tag]
IsForward(v) == v.pin1 = HIGH /\ v.pin2 = LOW
IsReverse(v) == v.pin1 = LOW /\ v.pin2 = HIGH
Opposite(v, w) == (IsForward(v) /\ IsReverse(w)) \/ (IsReverse(v) /\ IsForward(w))
\* calls i and j are resumes with nothing but n reversals between them
ResumesAround(i, j, n) ==
  /\ j = i + n + 1
  /\ out[i].tag = "resume"
  /\ out[j].tag = "resume"
  /\ \A k \in (i + 1)..(j - 1) : out[k].tag = "reverse"

\* C13: a resume that follows one reversal drives the pattern opposite to
\* the one the resume before the reversal drove (forward is pin1 HIGH / pin2
\* LOW, reverse is pin1 LOW / pin2 HIGH); after two reversals the resume
\* drives the original pattern again, with the original direction.
TheoremC13 ==
  \A i, j \in 1..Len(out) :
    /\ ResumesAround(i, j, 1) => Opposite(out[i].val, out[j].val)
    /\ ResumesAround(i, j, 2) =>
         /\ IsForward(out[i].val) \/ IsReverse(out[i].val)
         /\ out[j].val = out[i].val

WitnessC13 ==
  /\ pc = "drv_idle"
  /\ CallTags = <<"reverse", "resume", "reverse", "resume">>
  /\ IsReverse(out[2].val)
  /\ IsForward(out[4].val)

\* C14: startStop(true) leaves both outputs LOW whatever ran before it and
\* leaves direction and counter alone; a second startStop(true) right after
\* it leaves outputs, direction and counter as the first did.
TheoremC14 ==
  \A i \in 1..Len(out) :
    out[i].tag = "stop" =>
      /\ out[i].val.pin1 = LOW
      /\ out[i].val.pin2 = LOW
      /\ i > 1 => /\ out[i].val.dir = out[i - 1].val.dir
                  /\ out[i].val.cnt = out[i - 1].val.cnt
      /\ (i > 1 /\ out[i - 1].tag = "stop") => out[i].val = out[i - 1].val

WitnessC14 ==
  /\ pc = "drv_idle"
  /\ CallTags = <<"reverse", "resume", "stop", "stop">>
  /\ IsReverse(out[2].val)
  /\ out[4].val = Snapshot(LOW, LOW, FALSE, 90)

\* C19: while scanning, iterations complete again and again, the motor is
\* resumed again and again and the direction is flipped again and again,
\* whatever the readings are.
TheoremC19 ==
  /\ []<>(pc = "loop_delay" /\ OpCount("increment") = 1)
  /\ []<>(pc = "loop_incr" /\ OpCount("resume") = 1 /\ ~MotorStopped)
  /\ []<>(pc = "loop_resume_p1" /\ OpCount("reverse") = 1 /\ direction)
  /\ []<>(pc = "loop_resume_p1" /\ OpCount("reverse") = 1 /\ ~direction)

WitnessC19 ==
  /\ pc = "loop_delay"
  /\ ~direction
  /\ ops = ReversingCycle
  /\ distance = 0
  /\ ReversePattern

====
